---- MODULE Spec2Model ----
(***************************************************************************)
(* The "Simulation" tab of the saponification explorer (src/basic.py,      *)
(* lines 76-156): the Arrhenius rate constant, the per-dataset choice of   *)
(* the rate constant from the dataset label, and the integration of        *)
(* dC/dt = -k*C^2 on the experimental time grid.                           *)
(*                                                                         *)
(* Numbers.  The script computes in IEEE doubles; here every real is a     *)
(* fixed-point integer:                                                    *)
(*   concentrations   in units of 1/CScale mol/L   (0.0500 is 500)         *)
(*   A and k          in units of 1/KScale L/mol/s (0.5 is 500)            *)
(*   exponentials     in units of 1/ExpScale                               *)
(*   R                in units of 1/1000 J/(mol K) (8.314 is 8314)         *)
(*   Ea in J/mol, T in K and times in seconds are whole numbers.           *)
(* Every product is arranged to stay inside 32 bits.                       *)
(***************************************************************************)
EXTENDS Integers, Sequences, FiniteSets, TLC

VARIABLES
    parameter,      \* st.selectbox "Parameter to Analyze"
    A_input,        \* st.number_input "Frequency Factor A"
    Ea_input,       \* st.number_input "Activation Energy Ea"
    T_sim,          \* st.number_input "Temperature (K)"
    pc,             \* position of the script run
    k_sim,          \* global rate constant (line 90)
    metric,         \* st.metric: <<>> when nothing is displayed, else <<k>>
    warning,        \* st.warning shown
    error,          \* uncaught exception that ended the run, "" when none
    i,              \* index of the next dataset of the loop (1..3)
    traces,         \* fig: the traces added so far, in order
    C0,             \* loop local: conc_exp[0]
    time_sim_sec,   \* loop local: np.array(time_exp)
    k_temp,         \* loop local: rate constant handed to odeint
    conc_sim,       \* loop local: odeint's result, flattened
    kUsed,          \* history: the k_temp of every odeint call of this run
    prev            \* history: the previous completed run (paired runs only)

vars == <<parameter, A_input, Ea_input, T_sim, pc, k_sim, metric, warning,
          error, i, traces, C0, time_sim_sec, k_temp, conc_sim, kUsed, prev>>

-----------------------------------------------------------------------------
(* Representation scales and the gas constant *)

KScale == 1000

CScale == 10000

ExpScale == 10000

R == 8314

(* Bounds of the model *)

\* integration sub-steps per interval of the time grid
SubSteps == 2

\* largest positive exponent -Ea/(R*T), in whole units, among the drawn inputs
MaxExpArg == 1

-----------------------------------------------------------------------------
(* Arithmetic helpers *)

Abs(x) == IF x < 0 THEN -x ELSE x

\* a / b rounded toward zero, b > 0
Quot(a, b) == IF a >= 0 THEN a \div b ELSE -((-a) \div b)

\* a * b / ExpScale for a, b >= 0 without leaving 32 bits
MulFix(a, b) == (a \div ExpScale) * b + ((a % ExpScale) * b) \div ExpScale

RECURSIVE ExpTerms(_, _, _, _, _)
\* sum of the Taylor terms n..8 of exp(sgn * f / 1000), 0 <= f < 1000
ExpTerms(f, sgn, n, term, s) ==
    IF n > 8 THEN 0
    ELSE s * term + ExpTerms(f, sgn, n + 1, (term * f) \div (1000 * (n + 1)), s * sgn)

RECURSIVE ExpInt(_, _, _)
\* acc * exp(sgn * n) for a whole n >= 0; a product that has reached 0 stays 0
ExpInt(n, sgn, acc) ==
    IF n = 0 \/ acc = 0 THEN acc
    ELSE ExpInt(n - 1, sgn, MulFix(acc, IF sgn < 0 THEN 3679 ELSE 27183))

\* np.exp(x / 1000)
exp(x) ==
    LET s == IF x < 0 THEN -1 ELSE 1
        a == Abs(x)
    IN  MulFix(ExpInt(a \div 1000, s, ExpScale), ExpTerms(a % 1000, s, 0, ExpScale, 1))

\* -Ea / (R * T) in thousandths, T # 0
ExpArg(Ea, T) ==
    LET q == (((Abs(Ea) * 1000) \div R) * 1000) \div Abs(T)
    IN  IF (Ea >= 0) = (T > 0) THEN -q ELSE q

\* A * np.exp(-Ea / (R * T)): the expression of lines 90 and 136
Arrhenius(A, Ea, T) ==
    IF A >= 0 THEN MulFix(exp(ExpArg(Ea, T)), A)
    ELSE -MulFix(exp(ExpArg(Ea, T)), -A)

\* float division by zero: R * T is 0.0 exactly when T is
RaisesZeroDivision(T) == T = 0

-----------------------------------------------------------------------------
(* The embedded datasets (lines 96-117).  A label is its characters. *)

TimeGrid == <<0, 480, 960, 1440, 1920, 2400, 2880>>

Families == <<"Temperature", "Volume", "Agitation Rate", "Initial Concentration">>

data_sets ==
    "Temperature" :> <<
        [label |-> <<"2","9","3","K">>, time |-> TimeGrid, conc |-> <<500, 333, 233, 178, 156, 144, 125>>],
        [label |-> <<"3","0","3","K">>, time |-> TimeGrid, conc |-> <<500, 256, 189, 144, 122, 100, 78>>],
        [label |-> <<"3","1","3","K">>, time |-> TimeGrid, conc |-> <<500, 200, 133, 100, 83, 67, 61>>] >>
    @@ "Volume" :> <<
        [label |-> <<"1",".","2","L">>, time |-> TimeGrid, conc |-> <<500, 222, 156, 128, 100, 89, 83>>],
        [label |-> <<"1",".","4","L">>, time |-> TimeGrid, conc |-> <<500, 289, 222, 178, 156, 144, 133>>],
        [label |-> <<"1",".","8","L">>, time |-> TimeGrid, conc |-> <<500, 670, 289, 256, 222, 200, 167>>] >>
    @@ "Agitation Rate" :> <<
        [label |-> <<"7","0","r","p","m">>, time |-> TimeGrid, conc |-> <<500, 189, 133, 100, 78, 67, 56>>],
        [label |-> <<"1","1","0","r","p","m">>, time |-> TimeGrid, conc |-> <<500, 256, 189, 156, 128, 111, 100>>],
        [label |-> <<"1","5","0","r","p","m">>, time |-> TimeGrid, conc |-> <<500, 333, 267, 222, 200, 178, 156>>] >>
    @@ "Initial Concentration" :> <<
        [label |-> <<"0",".","0","2","5","M">>, time |-> TimeGrid, conc |-> <<500, 360, 260, 200, 160, 120, 111>>],
        [label |-> <<"0",".","0","5","0","M">>, time |-> TimeGrid, conc |-> <<500, 389, 300, 244, 211, 189, 167>>],
        [label |-> <<"0",".","0","7","5","M">>, time |-> TimeGrid, conc |-> <<500, 392, 313, 256, 222, 200, 178>>] >>

-----------------------------------------------------------------------------
(* Label to temperature (lines 134-138) *)

Digits == <<"0", "1", "2", "3", "4", "5", "6", "7", "8", "9">>

IsDigit(c) == \E d \in 1..10 : Digits[d] = c

DigitVal(c) == (CHOOSE d \in 1..10 : Digits[d] = c) - 1

\* Replace with the replacement forgotten: the label is left as it is
Replace_kept(s, old) == s

\* str.replace(old, ""), old a single character: every occurrence is removed
Replace(s, old) == SelectSeq(s, LAMBDA c : c # old)

RECURSIVE DigitsValue(_)
DigitsValue(s) ==
    IF s = <<>> THEN 0
    ELSE 10 * DigitsValue(SubSeq(s, 1, Len(s) - 1)) + DigitVal(s[Len(s)])

RECURSIVE LeadingDigits(_)
LeadingDigits(s) ==
    IF s = <<>> \/ ~IsDigit(s[1]) THEN <<>> ELSE <<s[1]>> \o LeadingDigits(Tail(s))

\* int() replaced by a parse of the numeric prefix: "70rpm" is 70, "1.4L" is 1
IntParse_prefix(s) ==
    IF LeadingDigits(s) # <<>>
    THEN [ok |-> TRUE, val |-> DigitsValue(LeadingDigits(s))]
    ELSE [ok |-> FALSE, val |-> 0]

\* int(s) of a string: an optional sign and then digits only; anything else
\* (a '.', a letter, the empty string) is a ValueError
IntParse(s) ==
    LET signed == s # <<>> /\ s[1] \in {"+", "-"}
        body   == IF signed THEN Tail(s) ELSE s
    IN  IF body # <<>> /\ \A j \in 1..Len(body) : IsDigit(body[j])
        THEN [ok |-> TRUE,
              val |-> IF signed /\ s[1] = "-" THEN -DigitsValue(body) ELSE DigitsValue(body)]
        ELSE [ok |-> FALSE, val |-> 0]

\* the selection with the label ignored: every dataset gets the global k
SelectK_global(label, A, Ea, k) == k

\* try: temp_val = int(label.replace("K", "")); k_temp = A * exp(-Ea / (R * temp_val))
\* except: k_temp = k_sim        (the bare except also takes the division by zero)
SelectK(label, A, Ea, k) ==
    LET temp_val == IntParse(Replace(label, "K"))
    IN  IF temp_val.ok /\ ~RaisesZeroDivision(temp_val.val)
        THEN Arrhenius(A, Ea, temp_val.val)
        ELSE k

-----------------------------------------------------------------------------
(* The integration (lines 130 and 140) *)

\* ode_model with the sign lost: the concentration is produced, not consumed
ode_model_growth(C, t, k) == k * C * C

\* ode_model with args=(k,) not applied: the rate constant is taken as one unit
ode_model_unit(C, t, k) == -(C * C)

\* def ode_model(C, t, k): return -k * C**2     (in units of 1/(KScale*CScale^2))
ode_model(C, t, k) == -(k * C * C)

\* One step of length h from (C, t).  scipy's integrator is adaptive and, on a
\* stiff problem, implicit with a finite-difference Jacobian; it is abstracted
\* as one linearly implicit trapezoidal (Rosenbrock) step
\*     C + h*f / (1 - (h/2)*df/dC)
\* with f and the central difference df/dC both taken from ode_model.  For a
\* quadratic right-hand side the step follows the exact solution up to rounding.
OdeStep(C, t, h, k) ==
    LET f     == ode_model(C, t, k)
        halfJ == Quot(ode_model(C + 1, t, k) - ode_model(C - 1, t, k), 4)
        den   == ((KScale * CScale) \div h) - halfJ
    IN  IF h = 0 THEN C ELSE C + Quot(f, den)

RECURSIVE Advance(_, _, _, _, _)
\* n steps of length h
Advance(C, t, h, k, n) ==
    IF n = 0 THEN C ELSE Advance(OdeStep(C, t, h, k), t + h, h, k, n - 1)

RECURSIVE Integrate(_, _, _, _)
\* the values at t[j..], given the value C at t[j-1]
Integrate(C, t, j, k) ==
    IF j > Len(t) THEN <<>>
    ELSE LET next == Advance(C, t[j - 1], (t[j] - t[j - 1]) \div SubSteps, k, SubSteps)
         IN  <<next>> \o Integrate(next, t, j + 1, k)

\* odeint(ode_model, y0, t, args=(k,)).flatten(): one value per time point,
\* the first of them y0 itself
odeint(y0, t, k) == IF t = <<>> THEN <<>> ELSE <<y0>> \o Integrate(y0, t, 2, k)

\* np.array(time) / 60: seconds to minutes (every grid point is a whole minute)
ToMinutes(t) == [j \in 1..Len(t) |-> t[j] \div 60]

-----------------------------------------------------------------------------
(* The traces of the figure (lines 127-128 and 143-144) *)

\* the experimental trace sliced one point short
ExpTrace_short(d) ==
    [name |-> <<"Exp", d.label>>, x |-> ToMinutes(d.time), y |-> SubSeq(d.conc, 1, Len(d.conc) - 1)]

\* go.Scatter(x=time_exp_min, y=conc_exp, name=f"Exp {label}")
ExpTrace(d) == [name |-> <<"Exp", d.label>>, x |-> ToMinutes(d.time), y |-> d.conc]

\* the simulated trace plotted against seconds instead of minutes
SimTrace_seconds(d, t, y) == [name |-> <<"Sim", d.label>>, x |-> t, y |-> y]

\* go.Scatter(x=time_sim_min, y=conc_sim.flatten(), name=f"Sim {label}")
SimTrace(d, t, y) == [name |-> <<"Sim", d.label>>, x |-> ToMinutes(t), y |-> y]

\* if k_sim > 1
FastReaction(k) == k > KScale

-----------------------------------------------------------------------------
(* The inputs a user can set.  The widgets accept any number; these are the
   values drawn here.  A negative temperature makes the exponent positive,
   and it is kept within MaxExpArg. *)

ASet == {0, 500, 1000, 2000}

EaSet == {0, 2494, 43094}

TSet == {-300, 0, 298, 350}

InRange(Ea, T) == T < 0 => ExpArg(Ea, T) <= MaxExpArg * 1000

Inputs == {in \in ASet \X EaSet \X TSet : InRange(in[2], in[3])}

PairInputs == {in \in {500, 2000} \X {2494, 43094} \X {-300, 298, 350} : InRange(in[2], in[3])}

FamilySet == {Families[f] : f \in 1..Len(Families)}

-----------------------------------------------------------------------------
(* One run of the script, top to bottom *)

\* the widgets' default values (lines 84-88), the script about to reach line 90
Init ==
    /\ parameter = Families[1]
    /\ A_input = 500
    /\ Ea_input = 43094
    /\ T_sim = 298
    /\ pc = "calc"
    /\ k_sim = 0
    /\ metric = <<>>
    /\ warning = FALSE
    /\ error = ""
    /\ i = 1
    /\ traces = <<>>
    /\ C0 = 0
    /\ time_sim_sec = <<>>
    /\ k_temp = 0
    /\ conc_sim = <<>>
    /\ kUsed = <<>>
    /\ prev = <<>>

\* lines 90-91: k_sim and its display; a zero temperature raises and ends the run
ComputeK ==
    /\ pc = "calc"
    /\ IF RaisesZeroDivision(T_sim)
       THEN /\ error' = "ZeroDivisionError"
            /\ pc' = "error"
            /\ UNCHANGED <<k_sim, metric>>
       ELSE /\ k_sim' = Arrhenius(A_input, Ea_input, T_sim)
            /\ metric' = <<k_sim'>>
            /\ pc' = "warn"
            /\ error' = error
    /\ UNCHANGED <<parameter, A_input, Ea_input, T_sim, warning, i, traces,
                   C0, time_sim_sec, k_temp, conc_sim, kUsed, prev>>

\* the warning made an error: a fast reaction ends the run before the loop
Warn_halts ==
    /\ pc = "warn"
    /\ warning' = FastReaction(k_sim)
    /\ pc' = IF FastReaction(k_sim) THEN "done" ELSE "loop"
    /\ UNCHANGED <<parameter, A_input, Ea_input, T_sim, k_sim, metric, error, i,
                   traces, C0, time_sim_sec, k_temp, conc_sim, kUsed, prev>>

\* lines 93-94: the warning, and on to the loop either way
Warn ==
    /\ pc = "warn"
    /\ warning' = FastReaction(k_sim)
    /\ pc' = "loop"
    /\ UNCHANGED <<parameter, A_input, Ea_input, T_sim, k_sim, metric, error, i,
                   traces, C0, time_sim_sec, k_temp, conc_sim, kUsed, prev>>

\* lines 123-144: one iteration of the loop over the selected family
LoopIter ==
    /\ pc = "loop"
    /\ i <= Len(data_sets[parameter])
    /\ LET d == data_sets[parameter][i]
       IN  /\ C0' = d.conc[1]
           /\ time_sim_sec' = d.time
           /\ k_temp' = SelectK(d.label, A_input, Ea_input, k_sim)
           /\ conc_sim' = odeint(C0', time_sim_sec', k_temp')
           /\ traces' = traces \o <<ExpTrace(d), SimTrace(d, time_sim_sec', conc_sim')>>
           /\ kUsed' = Append(kUsed, k_temp')
    /\ i' = i + 1
    /\ UNCHANGED <<parameter, A_input, Ea_input, T_sim, pc, k_sim, metric,
                   warning, error, prev>>

\* lines 146-156: the chart is drawn
Plot ==
    /\ pc = "loop"
    /\ i > Len(data_sets[parameter])
    /\ pc' = "done"
    /\ UNCHANGED <<parameter, A_input, Ea_input, T_sim, k_sim, metric, warning,
                   error, i, traces, C0, time_sim_sec, k_temp, conc_sim, kUsed, prev>>

\* what a completed run leaves behind: its inputs, its k and its simulated series
RunRecord ==
    [parameter |-> parameter, A |-> A_input, Ea |-> Ea_input, T |-> T_sim,
     k |-> k_sim, warning |-> warning,
     sims |-> [m \in 1..(Len(traces) \div 2) |-> traces[2 * m].y]]

\* a widget changes: the script starts again with a fresh page and namespace
Restart(S, keep) ==
    /\ pc \in {"done", "error"}
    /\ \E p \in FamilySet, in \in S :
          /\ parameter' = p
          /\ A_input' = in[1]
          /\ Ea_input' = in[2]
          /\ T_sim' = in[3]
    /\ pc' = "calc"
    /\ k_sim' = 0
    /\ metric' = <<>>
    /\ warning' = FALSE
    /\ error' = ""
    /\ i' = 1
    /\ traces' = <<>>
    /\ C0' = 0
    /\ time_sim_sec' = <<>>
    /\ k_temp' = 0
    /\ conc_sim' = <<>>
    /\ kUsed' = <<>>
    /\ prev' = IF keep /\ pc = "done" THEN <<RunRecord>> ELSE prev

Rerun == Restart(Inputs, FALSE)

RerunPaired == Restart(PairInputs, TRUE)

Next == ComputeK \/ Warn \/ LoopIter \/ Plot \/ Rerun

Spec == Init /\ [][Next]_vars

\* the same program, remembering the previous completed run
NextPair == ComputeK \/ Warn \/ LoopIter \/ Plot \/ RerunPaired

PairSpec == Init /\ [][NextPair]_vars

-----------------------------------------------------------------------------
(* The simulation step alone (lines 130-140), on inputs of its own *)

SimC0Set == {0, 100, 250, 500}

SimKSet == {0, 1, 35, 500, 2000, 5414}

SimGridSet == {<<0>>, <<0, 480>>, <<0, 0, 60, 60, 2880>>, <<0, 60, 120, 600>>, TimeGrid}

InitSim ==
    /\ parameter = Families[1]
    /\ A_input = 500
    /\ Ea_input = 43094
    /\ T_sim = 298
    /\ pc = "sim"
    /\ k_sim = 0
    /\ metric = <<>>
    /\ warning = FALSE
    /\ error = ""
    /\ i = 1
    /\ traces = <<>>
    /\ C0 \in SimC0Set
    /\ time_sim_sec \in SimGridSet
    /\ k_temp \in SimKSet
    /\ conc_sim = <<>>
    /\ kUsed = <<>>
    /\ prev = <<>>

\* line 140, with nothing before it that looks at C0 or at the time points
Simulate ==
    /\ pc = "sim"
    /\ conc_sim' = odeint(C0, time_sim_sec, k_temp)
    /\ pc' = "simdone"
    /\ UNCHANGED <<parameter, A_input, Ea_input, T_sim, k_sim, metric, warning,
                   error, i, traces, C0, time_sim_sec, k_temp, kUsed, prev>>

\* the next call, on other inputs
SimAgain ==
    /\ pc = "simdone"
    /\ C0' \in SimC0Set
    /\ time_sim_sec' \in SimGridSet
    /\ k_temp' \in SimKSet
    /\ conc_sim' = <<>>
    /\ pc' = "sim"
    /\ UNCHANGED <<parameter, A_input, Ea_input, T_sim, k_sim, metric, warning,
                   error, i, traces, kUsed, prev>>

NextSim == Simulate \/ SimAgain

SimSpec == InitSim /\ [][NextSim]_vars

-----------------------------------------------------------------------------
(* Properties *)

\* the dataset the m-th iteration of the current run worked on
Dataset(m) == data_sets[parameter][m]

\* the number of datasets the loop has finished
Finished == Len(traces) \div 2

\* the temperatures written in the labels "293K", "303K", "313K"
LabelKelvin == <<293, 303, 313>>

\* C1: every rate constant handed to the simulator is, for a label that
\* encodes a temperature ("293K", "303K", "313K"), the Arrhenius value at that
\* temperature with the configured A and Ea, and for every other label the
\* global k computed from the configured T.
C1_RateSelection ==
    \A m \in 1..Len(kUsed) :
        IF parameter = "Temperature"
        THEN kUsed[m] = Arrhenius(A_input, Ea_input, LabelKelvin[m])
        ELSE kUsed[m] = k_sim /\ k_sim = Arrhenius(A_input, Ea_input, T_sim)

C1_Witness ==
    /\ pc = "done"
    /\ parameter = "Temperature"
    /\ Len(kUsed) = 3
    /\ kUsed[1] < kUsed[2] /\ kUsed[2] < kUsed[3]
    /\ \A m \in 1..3 : kUsed[m] # k_sim

\* C2: a temperature T <= 0 is rejected before the exponential: the run ends
\* in an error with no rate constant displayed and no series produced.
C2_NonPositiveTemperatureRejected ==
    (T_sim <= 0 /\ pc # "calc") => (error # "" /\ metric = <<>> /\ traces = <<>>)

\* a time sequence in which no point precedes the one before it
Nondecreasing(t) == \A j \in 1..(Len(t) - 1) : t[j] <= t[j + 1]

NoTemperature(l) == \E j \in 1..Len(l) : ~IsDigit(l[j]) /\ l[j] # "K"

\* C4: a label that does not parse as a temperature never fails the run: the
\* dataset gets the global k, no error is raised, its series is produced.
C4_ParseFallback ==
    /\ pc \in {"loop", "done"} => error = ""
    /\ \A m \in 1..Len(kUsed) :
          NoTemperature(Dataset(m).label) =>
              /\ kUsed[m] = k_sim
              /\ Finished >= m
              /\ traces[2 * m].name = <<"Sim", Dataset(m).label>>
              /\ Len(traces[2 * m].y) = Len(Dataset(m).time)

C4_Witness ==
    /\ pc = "done"
    /\ parameter = "Volume"
    /\ Len(kUsed) = 3
    /\ k_sim > 0
    /\ traces[4].y[2] < traces[4].y[1]

\* C5: the simulated series of a dataset has the length and the time grid of
\* its experimental series and starts at the same concentration.
C5_SharedGrid ==
    \A m \in 1..Finished :
        /\ Len(traces[2 * m].y) = Len(traces[2 * m - 1].y)
        /\ Len(traces[2 * m].x) = Len(traces[2 * m].y)
        /\ traces[2 * m].x = traces[2 * m - 1].x
        /\ traces[2 * m].y[1] = traces[2 * m - 1].y[1]

C5_Witness ==
    /\ pc = "done"
    /\ Finished = 3
    /\ \A m \in 1..3 : traces[2 * m].y[2] # traces[2 * m - 1].y[2]

\* the labels of the "Agitation Rate" family
AgitationLabels ==
    << <<"7","0","r","p","m">>, <<"1","1","0","r","p","m">>, <<"1","5","0","r","p","m">> >>

\* C6: a completed run shows exactly the 3 datasets of the selected family,
\* in order, each with its literal 7-point experimental series and exactly one
\* simulated series; for "Agitation Rate" the labels are 70rpm, 110rpm, 150rpm
\* and every simulated series is driven by the global k.
C6_FamilyDatasets ==
    pc = "done" =>
        /\ Len(traces) = 6
        /\ \A m \in 1..3 :
              /\ traces[2 * m - 1].name = <<"Exp", Dataset(m).label>>
              /\ traces[2 * m - 1].y = Dataset(m).conc
              /\ Len(traces[2 * m - 1].y) = 7
              /\ traces[2 * m].name = <<"Sim", Dataset(m).label>>
              /\ Cardinality({n \in 1..6 : traces[n].name = <<"Sim", Dataset(m).label>>}) = 1
        /\ parameter = "Agitation Rate" =>
              \A m \in 1..3 :
                  /\ traces[2 * m - 1].name[2] = AgitationLabels[m]
                  /\ kUsed[m] = k_sim
                  /\ traces[2 * m].y = odeint(500, TimeGrid, k_sim)

C6_Witness ==
    /\ pc = "done"
    /\ parameter = "Agitation Rate"
    /\ Len(traces) = 6
    /\ k_sim > 0

\* C7: with k = 0 the simulated series is C0 at every time point, for every
\* C0 > 0 and every nondecreasing grid starting at 0.
C7_NoReaction ==
    (pc = "simdone" /\ k_temp = 0 /\ C0 > 0) =>
        /\ Len(conc_sim) = Len(time_sim_sec)
        /\ \A j \in 1..Len(conc_sim) : conc_sim[j] = C0

C7_Witness ==
    /\ pc = "simdone"
    /\ k_temp = 0
    /\ C0 > 0
    /\ Len(conc_sim) = 7

\* C8: with k > 0 and C0 > 0 the simulated series starts at C0 and never rises
\* from one time point to the next.
C8_NonIncreasing ==
    (pc = "simdone" /\ k_temp > 0 /\ C0 > 0) =>
        /\ conc_sim[1] = C0
        /\ \A j \in 1..(Len(conc_sim) - 1) : conc_sim[j + 1] <= conc_sim[j]

C8_Witness ==
    /\ pc = "simdone"
    /\ k_temp > 0
    /\ C0 > 0
    /\ Len(conc_sim) = 7
    /\ conc_sim[7] < conc_sim[2] /\ conc_sim[2] < conc_sim[1]

\* C9: the warning is shown exactly when the global k exceeds 1 L/mol/s, and
\* it changes nothing else: the run goes on to the loop and ends with the
\* experimental and simulated series its inputs determine.
C9_WarningAdvisory ==
    /\ pc \in {"loop", "done"} => (warning <=> k_sim > KScale)
    /\ pc \in {"calc", "warn", "error"} => ~warning
    /\ pc = "done" =>
          /\ Len(traces) = 6
          /\ \A m \in 1..3 :
                /\ traces[2 * m - 1].y = Dataset(m).conc
                /\ traces[2 * m].y = odeint(Dataset(m).conc[1], Dataset(m).time, kUsed[m])

C9_Witness ==
    /\ pc = "done"
    /\ warning
    /\ Len(traces) = 6
    /\ T_sim > 0

\* C10: the configured T reaches the curves only through the global k.  Two
\* completed "Temperature" runs with the same A and Ea give the same simulated
\* series whatever their T; in the other families the 3 datasets of a run
\* share one k.
C10_TemperatureOnlyViaGlobalK ==
    pc = "done" =>
        /\ (/\ prev # <<>>
            /\ parameter = "Temperature"
            /\ prev[1].parameter = "Temperature"
            /\ prev[1].A = A_input
            /\ prev[1].Ea = Ea_input) => prev[1].sims = RunRecord.sims
        /\ parameter # "Temperature" =>
              \A m, n \in 1..Len(kUsed) : kUsed[m] = kUsed[n]

C10_Witness ==
    /\ pc = "done"
    /\ prev # <<>>
    /\ parameter = "Temperature"
    /\ prev[1].parameter = "Temperature"
    /\ prev[1].A = A_input
    /\ prev[1].Ea = Ea_input
    /\ prev[1].T > 0 /\ T_sim > 0 /\ prev[1].T # T_sim
    /\ prev[1].k # k_sim
    /\ RunRecord.sims[1] # RunRecord.sims[3]

====
